---- MODULE Spec2Model ----
(***************************************************************************)
(* Model of src/main.rs of deepseek_agent: a single-shot completion        *)
(* requester.  main() merges an optional .env file into the process        *)
(* environment, reads OPENAI_API_KEY and BASE_URL, prints them, builds an  *)
(* OpenAI client and one completion request, submits it once, and prints   *)
(* either the first choice or the error.                                   *)
(*                                                                         *)
(* The binary is executed twice (Runs).  Both executions see the same      *)
(* .env file, the same OPENAI_API_KEY in the process environment and the   *)
(* same answer from the transport; only BASE_URL of the process            *)
(* environment is chosen independently.  The second execution is launched  *)
(* when the first has ended.  Everything about a single execution is       *)
(* stated for every r in Runs; the pair is what the comparison of two runs *)
(* that differ in BASE_URL is stated on.                                   *)
(***************************************************************************)
EXTENDS Integers, Sequences, FiniteSets, TLC

----------------------------------------------------------------------------
(* Bounds and input domains *)

MaxChoices == 2

Runs == {1, 2}

KEY == "OPENAI_API_KEY"
BASE == "BASE_URL"
VarNames == {KEY, BASE}

\* Values of one variable of the process environment.
Unset == [tag |-> "unset"]
NotUtf8 == [tag |-> "bytes"]
Str(s) == [tag |-> "str", s |-> s]

ProcKeyValues == {Unset, NotUtf8, Str(""), Str("sk-proc")}
ProcBaseValues == {Unset, NotUtf8, Str(""), Str("https://proc.example/v1")}

\* The .env file: missing, or a list of KEY=value lines.
NoFile == [tag |-> "nofile"]
EnvFile(k, b) == [tag |-> "file", vars |-> [n \in VarNames |-> IF n = KEY THEN k ELSE b]]
DotenvFiles ==
    {NoFile} \cup {EnvFile(k, b) : k \in {Unset, Str("sk-file")},
                                   b \in {Unset, Str("https://file.example/v1")}}

\* What the completion endpoint may answer.
Texts == {"Why did the chicken cross the road?", "Knock knock."}
Choice(t) == [text |-> t]
ChoiceSeqs == UNION {[1..n -> {Choice(t) : t \in Texts}] : n \in 0..MaxChoices}

Errors == {[kind |-> "Reqwest", msg |-> "connection refused"],
           [kind |-> "ApiError", msg |-> "Incorrect API key provided"],
           [kind |-> "JSONDeserialize", msg |-> "expected value at line 1 column 1"]}

Ok(v) == [ok |-> TRUE, v |-> v]
Err(e) == [ok |-> FALSE, e |-> e]

Answers == {Ok([choices |-> cs]) : cs \in ChoiceSeqs} \cup {Err(e) : e \in Errors}

None == [tag |-> "none"]
Some(v) == [tag |-> "some", v |-> v]

----------------------------------------------------------------------------
(* Program constants *)

MAX_TOKENS == 100
EXIT_SUCCESS == 0
EXIT_PANIC == 101

OPENAI_API_BASE == "https://api.openai.com/v1"

----------------------------------------------------------------------------
(* Pure steps of main() *)

\* std::env::var: Ok(value) for a variable holding valid Unicode, otherwise
\* Err(NotPresent) or Err(NotUnicode).
EnvVarDefaulting(e, name) ==
    IF e[name].tag = "str" THEN Ok(e[name].s) ELSE Ok("")

EnvVar(e, name) ==
    CASE e[name].tag = "str" -> Ok(e[name].s)
      [] e[name].tag = "unset" -> Err("NotPresent")
      [] e[name].tag = "bytes" -> Err("NotUnicode(..)")

\* dotenv().ok(): every line of the file whose variable env::var cannot read
\* from the process environment is set (the dotenv crate never overrides a
\* readable variable); a missing file is ignored.
DotenvMerge(e, file) ==
    IF file.tag = "nofile" THEN e
    ELSE [n \in VarNames |->
            IF ~EnvVar(e, n).ok /\ file.vars[n].tag = "str"
            THEN file.vars[n] ELSE e[n]]

\* Result::expect on Err: the panic message.
ExpectMsg(msg, res) == msg \o ": " \o res.e

\* println!("API Key: {}", api_key)
FmtApiKeyMasked(k) == "API Key: ***"

FmtApiKey(k) == "API Key: " \o k

\* println!("Base URL: {}", base_url)
FmtBaseUrl(b) == "Base URL: " \o b

ClientInitLine == "Client initialized successfully!"

\* OpenAIConfig::new().with_api_key(api_key); base_url is not used.
BuildConfigWired(k, b) == [api_base |-> b, api_key |-> k, org_id |-> ""]

BuildConfig(k, b) == [api_base |-> OPENAI_API_BASE, api_key |-> k, org_id |-> ""]

\* Client::with_config(config)
WithConfig(c) == [config |-> c]

\* CreateCompletionRequestArgs::default().model(..).prompt(..).max_tokens(..).build()
BuildRequestLong ==
    Ok([model |-> "gpt-4o-mini",
        prompt |-> "Hello! Can you tell me a short joke?",
        max_tokens |-> MAX_TOKENS * 10])

BuildRequest ==
    Ok([model |-> "gpt-4o-mini",
        prompt |-> "Hello! Can you tell me a short joke?",
        max_tokens |-> MAX_TOKENS])

\* response.choices.first()
FirstLast(s) == IF Len(s) = 0 THEN None ELSE Some(s[Len(s)])

First(s) == IF Len(s) = 0 THEN None ELSE Some(s[1])

\* Display of the error returned by create() (async_openai's OpenAIError)
Display(e) ==
    CASE e.kind = "Reqwest" -> "http error: " \o e.msg
      [] e.kind = "ApiError" -> e.msg
      [] e.kind = "JSONDeserialize" -> "failed to deserialize api response: " \o e.msg

\* The Ok arm: what goes to stdout.
OkLinesPlaceholder(resp) ==
    IF First(resp.choices) = None
    THEN <<"DeepSeek Response: ">>
    ELSE <<"DeepSeek Response: " \o First(resp.choices).v.text>>

OkLines(resp) ==
    IF First(resp.choices) = None
    THEN <<>>
    ELSE <<"DeepSeek Response: " \o First(resp.choices).v.text>>

\* The Err arm: what goes to stderr.
ErrLinesSilent(e) == <<>>

ErrLines(e) == <<"Error calling DeepSeek API: " \o Display(e)>>

----------------------------------------------------------------------------
(* State *)

VARIABLES
    procEnv,      \* per run: the environment the process is started with
    dotenvFile,   \* the .env file in the working directory
    answer,       \* what the transport answers to a submission
    env,          \* per run: the process environment as main() sees it
    pc,           \* per run: position in main()
    api_key, base_url, config, client, request,   \* per run: locals of main()
    sent,         \* per run: requests handed to the transport, in order
    response,     \* per run: the value the awaited create() returned
    stdout, stderr,
    exit_code

vars == <<procEnv, dotenvFile, answer, env, pc, api_key, base_url, config,
          client, request, sent, response, stdout, stderr, exit_code>>

Terminal == {"aborted", "exited"}

\* The second execution starts when the first has ended.
Started(r) == r = 1 \/ pc[1] \in Terminal

Init ==
    /\ \E k \in ProcKeyValues : \E b1, b2 \in ProcBaseValues :
          procEnv = [r \in Runs |-> [n \in VarNames |->
                        IF n = KEY THEN k ELSE IF r = 1 THEN b1 ELSE b2]]
    /\ dotenvFile \in DotenvFiles
    /\ answer \in Answers
    /\ env = procEnv
    /\ pc = [r \in Runs |-> "dotenv"]
    /\ api_key = [r \in Runs |-> None]
    /\ base_url = [r \in Runs |-> None]
    /\ config = [r \in Runs |-> None]
    /\ client = [r \in Runs |-> None]
    /\ request = [r \in Runs |-> None]
    /\ sent = [r \in Runs |-> <<>>]
    /\ response = [r \in Runs |-> None]
    /\ stdout = [r \in Runs |-> <<>>]
    /\ stderr = [r \in Runs |-> <<>>]
    /\ exit_code = [r \in Runs |-> None]

Inputs == <<procEnv, dotenvFile, answer>>

\* A panic in main(): message on stderr, exit status 101.
Panic(r, msg) ==
    /\ stderr' = [stderr EXCEPT ![r] = Append(@, msg)]
    /\ exit_code' = [exit_code EXCEPT ![r] = Some(EXIT_PANIC)]
    /\ pc' = [pc EXCEPT ![r] = "aborted"]

----------------------------------------------------------------------------
(* Actions: one per statement of main() *)

\* dotenv().ok();
LoadDotenv(r) ==
    /\ Started(r) /\ pc[r] = "dotenv"
    /\ env' = [env EXCEPT ![r] = DotenvMerge(@, dotenvFile)]
    /\ pc' = [pc EXCEPT ![r] = "read_key"]
    /\ UNCHANGED <<Inputs, api_key, base_url, config, client, request, sent,
                   response, stdout, stderr, exit_code>>

\* let api_key = env::var("OPENAI_API_KEY").expect("OPENAI_API_KEY must be set");
ReadApiKey(r) ==
    /\ pc[r] = "read_key"
    /\ LET res == EnvVar(env[r], KEY) IN
         IF res.ok
         THEN /\ api_key' = [api_key EXCEPT ![r] = Some(res.v)]
              /\ pc' = [pc EXCEPT ![r] = "read_base"]
              /\ UNCHANGED <<stderr, exit_code>>
         ELSE /\ Panic(r, ExpectMsg("OPENAI_API_KEY must be set", res))
              /\ UNCHANGED api_key
    /\ UNCHANGED <<Inputs, env, base_url, config, client, request, sent,
                   response, stdout>>

\* let base_url = env::var("BASE_URL").expect("BASE_URL must be set");
ReadBaseUrl(r) ==
    /\ pc[r] = "read_base"
    /\ LET res == EnvVar(env[r], BASE) IN
         IF res.ok
         THEN /\ base_url' = [base_url EXCEPT ![r] = Some(res.v)]
              /\ pc' = [pc EXCEPT ![r] = "print_key"]
              /\ UNCHANGED <<stderr, exit_code>>
         ELSE /\ Panic(r, ExpectMsg("BASE_URL must be set", res))
              /\ UNCHANGED base_url
    /\ UNCHANGED <<Inputs, env, api_key, config, client, request, sent,
                   response, stdout>>

\* println!("API Key: {}", api_key);
PrintApiKey(r) ==
    /\ pc[r] = "print_key"
    /\ stdout' = [stdout EXCEPT ![r] = Append(@, FmtApiKey(api_key[r].v))]
    /\ pc' = [pc EXCEPT ![r] = "print_base"]
    /\ UNCHANGED <<Inputs, env, api_key, base_url, config, client, request,
                   sent, response, stderr, exit_code>>

\* println!("Base URL: {}", base_url);
PrintBaseUrl(r) ==
    /\ pc[r] = "print_base"
    /\ stdout' = [stdout EXCEPT ![r] = Append(@, FmtBaseUrl(base_url[r].v))]
    /\ pc' = [pc EXCEPT ![r] = "config"]
    /\ UNCHANGED <<Inputs, env, api_key, base_url, config, client, request,
                   sent, response, stderr, exit_code>>

\* let config = OpenAIConfig::new().with_api_key(api_key);
MakeConfig(r) ==
    /\ pc[r] = "config"
    /\ config' = [config EXCEPT ![r] = Some(BuildConfig(api_key[r].v, base_url[r].v))]
    /\ pc' = [pc EXCEPT ![r] = "client"]
    /\ UNCHANGED <<Inputs, env, api_key, base_url, client, request, sent,
                   response, stdout, stderr, exit_code>>

\* let client = Client::with_config(config);
MakeClient(r) ==
    /\ pc[r] = "client"
    /\ client' = [client EXCEPT ![r] = Some(WithConfig(config[r].v))]
    /\ pc' = [pc EXCEPT ![r] = "print_init"]
    /\ UNCHANGED <<Inputs, env, api_key, base_url, config, request, sent,
                   response, stdout, stderr, exit_code>>

\* println!("Client initialized successfully!");
PrintInit(r) ==
    /\ pc[r] = "print_init"
    /\ stdout' = [stdout EXCEPT ![r] = Append(@, ClientInitLine)]
    /\ pc' = [pc EXCEPT ![r] = "build"]
    /\ UNCHANGED <<Inputs, env, api_key, base_url, config, client, request,
                   sent, response, stderr, exit_code>>

\* let request = CreateCompletionRequestArgs::default()....build().unwrap();
MakeRequest(r) ==
    /\ pc[r] = "build"
    /\ LET res == BuildRequest IN
         IF res.ok
         THEN /\ request' = [request EXCEPT ![r] = Some(res.v)]
              /\ pc' = [pc EXCEPT ![r] = "submit"]
              /\ UNCHANGED <<stderr, exit_code>>
         ELSE /\ Panic(r, "called Result::unwrap() on an Err value")
              /\ UNCHANGED request
    /\ UNCHANGED <<Inputs, env, api_key, base_url, config, client, sent,
                   response, stdout>>

\* client.completions().create(request): the request is moved into the call
\* and handed to the transport; main() is suspended on the .await.
Submit(r) ==
    /\ pc[r] = "submit"
    /\ sent' = [sent EXCEPT ![r] = Append(@, [client |-> client[r].v, request |-> request[r].v])]
    /\ pc' = [pc EXCEPT ![r] = "await"]
    /\ UNCHANGED <<Inputs, env, api_key, base_url, config, client, request,
                   response, stdout, stderr, exit_code>>

\* The transport answers and the .await resumes with Ok(response) or Err(e).
Resume(r) ==
    /\ pc[r] = "await"
    /\ response' = [response EXCEPT ![r] = Some(answer)]
    /\ pc' = [pc EXCEPT ![r] = "match"]
    /\ UNCHANGED <<Inputs, env, api_key, base_url, config, client, request,
                   sent, stdout, stderr, exit_code>>

\* match ... { Ok(response) => { if let Some(choice) = ... }  Err(e) => { eprintln!(..) } }
MatchOnceMore(r) ==
    /\ pc[r] = "match"
    /\ LET res == response[r].v IN
         IF res.ok
         THEN /\ stdout' = [stdout EXCEPT ![r] = @ \o OkLines(res.v)]
              /\ pc' = [pc EXCEPT ![r] = "return"]
              /\ UNCHANGED stderr
         ELSE /\ stderr' = [stderr EXCEPT ![r] = @ \o ErrLines(res.e)]
              /\ pc' = [pc EXCEPT ![r] = IF Len(sent[r]) < 2 THEN "submit" ELSE "return"]
              /\ UNCHANGED stdout
    /\ UNCHANGED <<Inputs, env, api_key, base_url, config, client, request,
                   sent, response, exit_code>>

MatchPolling(r) ==
    /\ pc[r] = "match"
    /\ LET res == response[r].v IN
         IF res.ok
         THEN /\ stdout' = [stdout EXCEPT ![r] = @ \o OkLines(res.v)]
              /\ pc' = [pc EXCEPT ![r] = "return"]
              /\ UNCHANGED stderr
         ELSE /\ pc' = [pc EXCEPT ![r] = "await"]
              /\ UNCHANGED <<stdout, stderr>>
    /\ UNCHANGED <<Inputs, env, api_key, base_url, config, client, request,
                   sent, response, exit_code>>

Match(r) ==
    /\ pc[r] = "match"
    /\ LET res == response[r].v IN
         IF res.ok
         THEN /\ stdout' = [stdout EXCEPT ![r] = @ \o OkLines(res.v)]
              /\ UNCHANGED stderr
         ELSE /\ stderr' = [stderr EXCEPT ![r] = @ \o ErrLines(res.e)]
              /\ UNCHANGED stdout
    /\ pc' = [pc EXCEPT ![r] = "return"]
    /\ UNCHANGED <<Inputs, env, api_key, base_url, config, client, request,
                   sent, response, exit_code>>

\* main() returns: the process exits with status 0.
Return(r) ==
    /\ pc[r] = "return"
    /\ exit_code' = [exit_code EXCEPT ![r] = Some(EXIT_SUCCESS)]
    /\ pc' = [pc EXCEPT ![r] = "exited"]
    /\ UNCHANGED <<Inputs, env, api_key, base_url, config, client, request,
                   sent, response, stdout, stderr>>

Step(r) ==
    \/ LoadDotenv(r)
    \/ ReadApiKey(r)
    \/ ReadBaseUrl(r)
    \/ PrintApiKey(r)
    \/ PrintBaseUrl(r)
    \/ MakeConfig(r)
    \/ MakeClient(r)
    \/ PrintInit(r)
    \/ MakeRequest(r)
    \/ Submit(r)
    \/ Resume(r)
    \/ Match(r)
    \/ Return(r)

Next == \E r \in Runs : Step(r)

Spec == Init /\ [][Next]_vars

\* main() is the only task and runs to completion; the transport is assumed
\* to answer every submission (Resume).
FairSpec == Spec /\ \A r \in Runs : WF_vars(Step(r))

----------------------------------------------------------------------------
(* Vocabulary of the properties *)

\* The program went past the .env merge, so env[r] is what the lookups see.
Loaded(r) == pc[r] # "dotenv"

\* The variable yields no string: it is not set, or (reported by the program
\* with the same "must be set" message) it is set to bytes that are not Unicode.
Missing(r, n) == env[r][n].tag # "str"
Present(r, n) == env[r][n].tag = "str"
NonEmpty(r, n) == Present(r, n) /\ env[r][n].s # ""

\* The fatal message of a missing variable n.
FatalLines(n) == {n \o " must be set: NotPresent", n \o " must be set: NotUnicode(..)"}

\* The first variable, in reading order, that is missing.
FirstMissing(r) == IF Missing(r, KEY) THEN KEY ELSE BASE

Preamble(r) == <<"API Key: " \o env[r][KEY].s,
                 "Base URL: " \o env[r][BASE].s,
                 "Client initialized successfully!">>

TheRequest == [model |-> "gpt-4o-mini",
               prompt |-> "Hello! Can you tell me a short joke?",
               max_tokens |-> 100]

Answered(r) == response[r] # None
AfterMatch(r) == pc[r] \in {"return", "exited"}

----------------------------------------------------------------------------
(* C1 *)

\* C1: in a run where OPENAI_API_KEY or BASE_URL is missing from the
\* environment after the .env merge, main() never gets past the two lookups:
\* no config, client or request is ever built, nothing is handed to the
\* transport, and when the run has ended it has aborted (status 101) with
\* exactly one fatal line on stderr, which names the missing variable (the
\* first in reading order when both are missing).
C1_AbortsOnMissingVariable ==
    \A r \in Runs :
        (Loaded(r) /\ (Missing(r, KEY) \/ Missing(r, BASE))) =>
            /\ pc[r] \in {"read_key", "read_base", "aborted"}
            /\ config[r] = None /\ client[r] = None /\ request[r] = None
            /\ sent[r] = <<>> /\ response[r] = None
            /\ stdout[r] = <<>>
            /\ pc[r] = "aborted" =>
                  /\ exit_code[r] = Some(101)
                  /\ Len(stderr[r]) = 1
                  /\ stderr[r][1] \in FatalLines(FirstMissing(r))

\* A run that read OPENAI_API_KEY, found BASE_URL not set and aborted.
C1_Witness ==
    \E r \in Runs :
        /\ pc[r] = "aborted" /\ Present(r, KEY) /\ env[r][BASE] = Unset
        /\ stderr[r] = <<"BASE_URL must be set: NotPresent">>

----------------------------------------------------------------------------
(* C2 *)

\* C2 as stated: whenever the client has been constructed, the credential and
\* the base location are both non-empty strings.
C2_ClientImpliesNonEmpty ==
    \A r \in Runs :
        client[r] # None =>
            /\ api_key[r] # None /\ api_key[r].v # ""
            /\ base_url[r] # None /\ base_url[r].v # ""

\* C2 amended: whenever the client has been constructed, both variables were
\* present in the environment and api_key and base_url hold exactly their
\* values (which may be the empty string); a run in which either variable is
\* missing never reaches client construction.
C2_ClientImpliesPresent ==
    \A r \in Runs :
        client[r] # None =>
            /\ Present(r, KEY) /\ api_key[r] = Some(env[r][KEY].s)
            /\ Present(r, BASE) /\ base_url[r] = Some(env[r][BASE].s)
            /\ client[r].v.config.api_key = env[r][KEY].s

\* A client constructed from an empty credential.
C2_Witness ==
    \E r \in Runs :
        client[r] # None /\ api_key[r] = Some("") /\ env[r][KEY] = Str("")

----------------------------------------------------------------------------
(* C3 *)

\* C3: in a run where both variables are set to non-empty values the program
\* never aborts, and from the moment the request is handed to the transport
\* the first three lines of stdout are the credential, the base location and
\* the confirmation line, verbatim and in this order; nothing else has been
\* printed when the submission is made.
C3_PrintsBeforeSubmit ==
    \A r \in Runs :
        (Loaded(r) /\ NonEmpty(r, KEY) /\ NonEmpty(r, BASE)) =>
            /\ pc[r] # "aborted"
            /\ exit_code[r] # Some(101)
            /\ pc[r] = "submit" => (stdout[r] = Preamble(r) /\ sent[r] = <<>>)
            /\ sent[r] # <<>> =>
                  /\ Len(stdout[r]) >= 3
                  /\ SubSeq(stdout[r], 1, 3) = Preamble(r)
            /\ Len(stdout[r]) < 3 => sent[r] = <<>>

\* The request is with the transport, both values came out non-empty.
C3_Witness ==
    \E r \in Runs :
        /\ pc[r] = "await" /\ Len(sent[r]) = 1
        /\ NonEmpty(r, KEY) /\ NonEmpty(r, BASE)
        /\ stdout[r][1] = "API Key: sk-file"

----------------------------------------------------------------------------
(* C4 *)

\* C4: at most one request is ever handed to the transport, and once the
\* submission has returned (with choices, without, or with an error) main()
\* only goes on to the match and the exit: it never builds or submits again.
C4_AtMostOneSubmission ==
    \A r \in Runs :
        /\ Len(sent[r]) <= 1
        /\ Answered(r) => (Len(sent[r]) = 1 /\ pc[r] \in {"match", "return", "exited"})

\* A run that ended after its submission failed.
C4_Witness ==
    \E r \in Runs :
        pc[r] = "exited" /\ Answered(r) /\ ~response[r].v.ok /\ Len(sent[r]) = 1

----------------------------------------------------------------------------
(* C5 *)

\* C5: every request handed to the transport carries model "gpt-4o-mini",
\* prompt "Hello! Can you tell me a short joke?" and max_tokens 100, whatever
\* the environment holds.
C5_RequestIsFixed ==
    \A r \in Runs :
        /\ \A i \in DOMAIN sent[r] : sent[r][i].request = TheRequest
        /\ request[r] # None => request[r].v = TheRequest

\* Two runs with different base locations have both submitted.
C5_Witness ==
    /\ Len(sent[1]) = 1 /\ Len(sent[2]) = 1
    /\ base_url[1] # base_url[2]
    /\ api_key[1] = Some("")

----------------------------------------------------------------------------
(* C6 *)

\* C6: when the submission returned a result with at least one choice, then
\* after the match stdout holds the three startup lines followed by exactly
\* one completion line, "DeepSeek Response: " and the text of choices[1];
\* no other choice is printed and stderr is empty.
C6_PrintsFirstChoice ==
    \A r \in Runs :
        (Answered(r) /\ response[r].v.ok /\ Len(response[r].v.v.choices) >= 1) =>
            /\ pc[r] = "match" => Len(stdout[r]) = 3
            /\ AfterMatch(r) =>
                  /\ Len(stdout[r]) = 4
                  /\ stdout[r][4] = "DeepSeek Response: " \o response[r].v.v.choices[1].text
                  /\ stderr[r] = <<>>

\* Two choices with different texts were returned and the run has ended.
C6_Witness ==
    \E r \in Runs :
        /\ pc[r] = "exited" /\ response[r].v.ok
        /\ Len(response[r].v.v.choices) = 2
        /\ response[r].v.v.choices[1].text = "Knock knock."
        /\ response[r].v.v.choices[2].text # "Knock knock."

----------------------------------------------------------------------------
(* C7 *)

\* C7: when the submission returned a result with no choices, the
\* confirmation line stays the last line of stdout, stderr stays empty, and
\* the run ends with status 0 and not by aborting.
C7_EmptyChoicesPrintNothing ==
    \A r \in Runs :
        (Answered(r) /\ response[r].v.ok /\ response[r].v.v.choices = <<>>) =>
            /\ Len(stdout[r]) = 3
            /\ stdout[r][3] = "Client initialized successfully!"
            /\ stderr[r] = <<>>
            /\ pc[r] # "aborted"
            /\ pc[r] = "exited" => exit_code[r] = Some(0)

\* A run that ended after a result without choices.
C7_Witness ==
    \E r \in Runs :
        pc[r] = "exited" /\ response[r].v.ok /\ response[r].v.v.choices = <<>>

----------------------------------------------------------------------------
(* C8 *)

\* C8: when the submission returned an error, then after the match stderr
\* holds exactly one line, "Error calling DeepSeek API: " and the error's
\* description, no completion line is on stdout, and the run ends with
\* status 0 and not by aborting.
C8_ErrorIsReportedAndSwallowed ==
    \A r \in Runs :
        (Answered(r) /\ ~response[r].v.ok) =>
            /\ Len(stdout[r]) = 3
            /\ pc[r] # "aborted"
            /\ pc[r] = "match" => stderr[r] = <<>>
            /\ AfterMatch(r) =>
                  stderr[r] = <<"Error calling DeepSeek API: " \o Display(response[r].v.e)>>
            /\ pc[r] = "exited" => exit_code[r] = Some(0)

\* A run that ended after the connection was refused.
C8_Witness ==
    \E r \in Runs :
        /\ pc[r] = "exited" /\ exit_code[r] = Some(0)
        /\ stderr[r] = <<"Error calling DeepSeek API: http error: connection refused">>

----------------------------------------------------------------------------
(* C9 *)

\* C9: under FairSpec (main() keeps running and the transport answers) every
\* run eventually ends, aborted at startup or exited, and a run whose
\* submission has been answered eventually exits.
C9_Terminates ==
    \A r \in Runs :
        /\ <>(pc[r] \in Terminal)
        /\ (Answered(r) ~> pc[r] = "exited")

\* One run aborted at startup, the other ended after an answered submission.
C9_Witness ==
    /\ pc[1] = "aborted" /\ pc[2] = "exited"
    /\ Answered(2) /\ ~response[2].v.ok

----------------------------------------------------------------------------
(* C10 *)

\* Every line of stdout but the base-location line (the second).
WithoutBaseLine(out) ==
    IF Len(out) < 2 THEN out ELSE <<out[1]>> \o SubSeq(out, 3, Len(out))

\* C10: two ended runs with the same OPENAI_API_KEY and the same transport
\* answer whose BASE_URL values are both present print their own BASE_URL
\* as second line, and have the same config, client, request, submissions,
\* stderr, exit status and stdout apart from that line.
C10_BaseUrlNotWired ==
    \A r1, r2 \in Runs :
        (/\ pc[r1] \in Terminal /\ pc[r2] \in Terminal
         /\ env[r1][KEY] = env[r2][KEY]
         /\ Present(r1, BASE) /\ Present(r2, BASE)) =>
            /\ config[r1] = config[r2]
            /\ client[r1] = client[r2]
            /\ request[r1] = request[r2]
            /\ sent[r1] = sent[r2]
            /\ stderr[r1] = stderr[r2]
            /\ exit_code[r1] = exit_code[r2]
            /\ WithoutBaseLine(stdout[r1]) = WithoutBaseLine(stdout[r2])
            /\ Len(stdout[r1]) >= 2 => stdout[r1][2] = "Base URL: " \o env[r1][BASE].s

\* Two ended runs that submitted, with different non-empty base locations.
C10_Witness ==
    /\ pc[1] = "exited" /\ pc[2] = "exited"
    /\ NonEmpty(1, BASE) /\ NonEmpty(2, BASE)
    /\ env[1][BASE] # env[2][BASE]
    /\ stdout[1][2] # stdout[2][2]
    /\ Len(sent[1]) = 1

====
